---- MODULE Spec2Model ----
(***************************************************************************)
(* Multi-machine proving pipeline of the fibonacci script                  *)
(* (examples/fibonacci/script): operator phase 1 (checkpointing), worker   *)
(* phase 1 (shard materialisation and commitment), operator phase 2        *)
(* (transcript merge), worker phase 2 (shard proving) and operator phase   *)
(* 3a (proof assembly), driven by scenario::core_prove.                    *)
(***************************************************************************)
EXTENDS Integers, Sequences, FiniteSets, TLC

(***************************************************************************)
(* Bounds of the model.                                                    *)
(***************************************************************************)
\* longest checkpoint sequence the execution engine produces
MaxCheckpoints == 3
\* core_opts.shard_batch_size: most records one checkpoint re-executes to
ShardBatchSize == 2
\* core_opts.split_opts: deferred events per full deferred record
SplitThreshold == 2
\* most records the engine produces in one execution
MaxShards == 4
\* most deferred events the engine produces in one execution
MaxEvents == 3
\* the configured ceiling of the cycle count
CycleCeiling == 2

(***************************************************************************)
(* Sequence helpers.                                                       *)
(***************************************************************************)
RECURSIVE Flatten(_)
Flatten(ss) == IF ss = <<>> THEN <<>> ELSE Head(ss) \o Flatten(Tail(ss))

RECURSIVE SumSeq(_)
SumSeq(s) == IF s = <<>> THEN 0 ELSE Head(s) + SumSeq(Tail(s))

Range(s) == {s[i] : i \in DOMAIN s}

(***************************************************************************)
(* PublicValues (sp1_core::air::PublicValues) and its reset.               *)
(***************************************************************************)
DefaultPublicValues ==
    [shard |-> 0, execution_shard |-> 0, start_pc |-> 0, next_pc |-> 0,
     previous_init_addr_bits |-> 0, last_init_addr_bits |-> 0,
     previous_finalize_addr_bits |-> 0, last_finalize_addr_bits |-> 0,
     exit_code |-> 0]

\* PublicValues::reset: the counters, program counters and address bits are
\* cleared, every other field is kept.
reset(pv) ==
    [pv EXCEPT !.shard = 0, !.execution_shard = 0, !.start_pc = 0,
               !.next_pc = 0,
               !.previous_init_addr_bits = 0, !.last_init_addr_bits = 0,
               !.previous_finalize_addr_bits = 0,
               !.last_finalize_addr_bits = 0]

(***************************************************************************)
(* The execution engine.  A record of the engine is one shard of cpu       *)
(* events; cpu_events stands for its trace (the number of the shard in the *)
(* whole execution), deferred_events for the events it will defer.         *)
(***************************************************************************)
\* the k-th record of the whole execution, carrying the deferred events evs
EngineRecord(k, evs) ==
    [kind |-> "cpu", cpu_events |-> k, deferred_events |-> evs,
     dependencies |-> FALSE,
     public_values |->
        [DefaultPublicValues EXCEPT !.shard = k, !.execution_shard = k,
                                    !.start_pc = 4 * k,
                                    !.next_pc = 4 * (k + 1)]]

\* ids first+1 .. first+n, in order
EventIds(first, n) == [i \in 1..n |-> first + i]

\* the records of one checkpoint: counts[j] deferred events in its j-th
\* record, after `shards` records and `events` deferred events so far
RECURSIVE EngineRecords(_, _, _)
EngineRecords(counts, shards, events) ==
    IF counts = <<>> THEN <<>>
    ELSE <<EngineRecord(shards + 1, EventIds(events, Head(counts)))>>
         \o EngineRecords(Tail(counts), shards + 1, events + Head(counts))

\* A checkpoint file: the saved ExecutionState (records stands for the
\* records its replay yields) and the position of the file.  The file holds
\* the state header and then the state's contents.
FileSize(file) == 1 + Len(file.records)

\* ExecutionState::save: the state written to the file, the file left at its
\* start
save(records) == [records |-> records, pos |-> 0]

\* deserialising the state from the file's position: it succeeds only from
\* the start of the file
ReadState(file) ==
    IF file.pos = 0 THEN [ok |-> TRUE, records |-> file.records]
    ELSE [ok |-> FALSE, records |-> <<>>]

\* the file once the reader has consumed it
AfterRead(file) == [file EXCEPT !.pos = FileSize(file)]

\* reset_seek: the file put back at its start
reset_seek(file) == [file EXCEPT !.pos = 0]

\* trace_checkpoint: re-executing a checkpoint yields the records of its
\* instruction range
trace_checkpoint(checkpoint) == ReadState(checkpoint).records

\* generate_dependencies over a batch of records
generate_dependencies(records) ==
    [j \in DOMAIN records |-> [records[j] EXCEPT !.dependencies = TRUE]]

(***************************************************************************)
(* ExecutionRecord operations used by worker phase 1.                      *)
(***************************************************************************)
\* ExecutionRecord::new: an empty record that only holds deferred events
NewRecord ==
    [kind |-> "deferred", cpu_events |-> 0, deferred_events |-> <<>>,
     dependencies |-> FALSE, public_values |-> DefaultPublicValues]

\* record.defer(): the record without its deferred events
Deferred(record) == [record EXCEPT !.deferred_events = <<>>]

\* deferred.append(record.defer()) over the records, in order
RECURSIVE DeferAll(_, _)
DeferAll(deferred, records) ==
    IF records = <<>> THEN deferred
    ELSE DeferAll([deferred EXCEPT
                      !.deferred_events = @ \o Head(records).deferred_events],
                  Tail(records))

\* one standalone record for a chunk of deferred events; the address bits
\* are the ones of the events it closes with
DeferredShard(prev, chunk) ==
    [NewRecord EXCEPT
        !.deferred_events = chunk,
        !.public_values =
            [DefaultPublicValues EXCEPT
                !.previous_init_addr_bits = prev,
                !.last_init_addr_bits = chunk[Len(chunk)],
                !.previous_finalize_addr_bits = prev,
                !.last_finalize_addr_bits = chunk[Len(chunk)]]]

\* the full chunks of `threshold` events, in order
RECURSIVE Chunks(_, _, _)
Chunks(events, threshold, prev) ==
    IF Len(events) < threshold THEN <<>>
    ELSE LET chunk == SubSeq(events, 1, threshold)
         IN <<DeferredShard(prev, chunk)>>
            \o Chunks(SubSeq(events, threshold + 1, Len(events)), threshold,
                      chunk[Len(chunk)])

\* what is left after the full chunks
Remainder(events, threshold) ==
    SubSeq(events, Len(events) - (Len(events) % threshold) + 1, Len(events))

\* ExecutionRecord::split(last, opts): the full chunks become records; the
\* remainder becomes a record too when last, and stays in the record
\* otherwise.  Yields the new records and the record as it is left.
split(deferred, last, threshold) ==
    LET events == deferred.deferred_events
        full == Chunks(events, threshold, 0)
        rest == Remainder(events, threshold)
        prev == IF full = <<>> THEN 0
                ELSE full[Len(full)].public_values.last_init_addr_bits
    IN IF last /\ rest # <<>>
       THEN [shards |-> full \o <<DeferredShard(prev, rest)>>,
             left |-> [deferred EXCEPT !.deferred_events = <<>>]]
       ELSE [shards |-> full,
             left |-> [deferred EXCEPT !.deferred_events = rest]]

\* the external prover's commit: a digest of the record's contents
commit(record) ==
    <<record.kind, record.cpu_events, record.deferred_events,
      record.dependencies, record.public_values>>

(***************************************************************************)
(* Worker phase 1 (worker::worker_phase1).                                 *)
(***************************************************************************)
\* the loop over the records that contain cpu events: the running state
\* after the records, and the records with the state written into them
\* a slip in the loop body: the counter written into the record's own
\* public values, the rest of them left as re-execution produced it
CpuStepInPlace(state, record) ==
    [record.public_values EXCEPT !.shard = state.shard + 1]

\* the body of the loop over the records that contain cpu events: the
\* running state it writes into the record
CpuStep(state, record) ==
    [state EXCEPT
        !.shard = @ + 1,
        !.execution_shard = record.public_values.execution_shard,
        !.start_pc = record.public_values.start_pc,
        !.next_pc = record.public_values.next_pc]

RECURSIVE UpdateCpuRecords(_, _)
UpdateCpuRecords(records, state) ==
    IF records = <<>> THEN [state |-> state, records |-> <<>>]
    ELSE LET record == Head(records)
             st == CpuStep(state, record)
             rest == UpdateCpuRecords(Tail(records), st)
         IN [state |-> rest.state,
             records |-> <<[record EXCEPT !.public_values = st]>>
                          \o rest.records]

\* the loop over the newly split deferred records
\* a slip in the loop body: start_pc is left where the last cpu record
\* started
DeferredStepKeepsStartPc(state, record) ==
    [state EXCEPT
        !.shard = @ + 1,
        !.previous_init_addr_bits =
            record.public_values.previous_init_addr_bits,
        !.last_init_addr_bits = record.public_values.last_init_addr_bits,
        !.previous_finalize_addr_bits =
            record.public_values.previous_finalize_addr_bits,
        !.last_finalize_addr_bits =
            record.public_values.last_finalize_addr_bits]

\* the body of the loop over the newly split deferred records: the running
\* state it writes into the record
DeferredStep(state, record) ==
    [state EXCEPT
        !.shard = @ + 1,
        !.previous_init_addr_bits =
            record.public_values.previous_init_addr_bits,
        !.last_init_addr_bits = record.public_values.last_init_addr_bits,
        !.previous_finalize_addr_bits =
            record.public_values.previous_finalize_addr_bits,
        !.last_finalize_addr_bits =
            record.public_values.last_finalize_addr_bits,
        !.start_pc = state.next_pc]

RECURSIVE UpdateDeferredRecords(_, _)
UpdateDeferredRecords(records, state) ==
    IF records = <<>> THEN [state |-> state, records |-> <<>>]
    ELSE LET record == Head(records)
             st == DeferredStep(state, record)
             rest == UpdateDeferredRecords(Tail(records), st)
         IN [state |-> rest.state,
             records |-> <<[record EXCEPT !.public_values = st]>>
                          \o rest.records]

\* a slip in the seed: the checkpoints counted from one
SeedStateFromOne(idx, public_values) ==
    [reset(public_values) EXCEPT !.shard = (idx + 1) * ShardBatchSize]

\* the state the running counters start from for checkpoint idx
SeedState(idx, public_values) ==
    [reset(public_values) EXCEPT !.shard = idx * ShardBatchSize]

\* a slip in the increment: the final checkpoint is bumped as well
BumpExecutionShardAlways(state, is_last_checkpoint) ==
    [state EXCEPT !.execution_shard = @ + 1]

\* the increment that follows the split
BumpExecutionShard(state, is_last_checkpoint) ==
    IF ~is_last_checkpoint
    THEN [state EXCEPT !.execution_shard = @ + 1]
    ELSE state

\* a slip in the split call: the flush is never forced
SplitDeferredNeverLast(deferred, is_last_checkpoint) ==
    split(deferred, FALSE, SplitThreshold)

\* a slip in the split call: the flush is always forced
SplitDeferredAlwaysLast(deferred, is_last_checkpoint) ==
    split(deferred, TRUE, SplitThreshold)

\* deferred.split(is_last_checkpoint, core_opts.split_opts)
SplitDeferred(deferred, is_last_checkpoint) ==
    split(deferred, is_last_checkpoint, SplitThreshold)

\* a slip in the output list: the deferred records left out
AppendDeferredDropped(records, deferred) == records

\* a slip in the output list: the deferred records put first
AppendDeferredFirst(records, deferred) == deferred \o records

\* the output list: the records re-executed, then the deferred ones
AppendDeferred(records, deferred) == records \o deferred

\* a slip after the commit: the record handed back has had its shard
\* rewritten since it was committed
CommitAllThenRewrite(records) ==
    [j \in DOMAIN records |->
        <<commit(records[j]),
          [records[j] EXCEPT !.public_values.shard = @ + 1]>>]

\* the commit of every record of the output list, paired with the record
CommitAll(records) ==
    [j \in DOMAIN records |-> <<commit(records[j]), records[j]>>]

\* a slip in the order: the dependencies generated first, the public values
\* written afterwards
MaterializeCpuDepsFirst(traced, state0) ==
    LET withDeps == generate_dependencies(traced)
        cpu == UpdateCpuRecords(withDeps, state0)
    IN [state |-> cpu.state, written |-> cpu.records, records |-> cpu.records]

\* the public-value loop over the traced records, then the dependency
\* generation over them: the running state, the records as the loop wrote
\* them and the records as dependency generation left them
MaterializeCpu(traced, state0) ==
    LET cpu == UpdateCpuRecords(traced, state0)
        withDeps == generate_dependencies(cpu.records)
    IN [state |-> cpu.state, written |-> cpu.records, records |-> withDeps]

\* a slip after the trace: the checkpoint is left where the read ended
RewindCheckpointSkipped(checkpoint) == checkpoint

\* reset_seek(checkpoint) after the trace
RewindCheckpoint(checkpoint) == reset_seek(checkpoint)

\* worker_phase1: idx and the (commitment, record) pairs it returns, with the
\* local deferred record and running state as they are when it returns, and
\* the checkpoint file as it leaves it
worker_phase1(idx, checkpoint, is_last_checkpoint, public_values) ==
    LET deferred0 == NewRecord
        state0 == SeedState(idx, public_values)
        traced == trace_checkpoint(checkpoint)
        cpu == MaterializeCpu(traced, state0)
        withDeps == cpu.records
        deferred1 == DeferAll(deferred0, withDeps)
        records1 == [j \in DOMAIN withDeps |-> Deferred(withDeps[j])]
        parts == SplitDeferred(deferred1, is_last_checkpoint)
        state1 == BumpExecutionShard(cpu.state, is_last_checkpoint)
        def == UpdateDeferredRecords(parts.shards, state1)
        records2 == AppendDeferred(records1, def.records)
    IN [idx |-> idx,
        read_ok |-> ReadState(checkpoint).ok,
        checkpoint |-> RewindCheckpoint(AfterRead(checkpoint)),
        commitments |-> CommitAll(records2),
        deferred |-> parts.left,
        written |-> cpu.written,
        split_shards |-> parts.shards,
        state_in |-> state0,
        state_cpu |-> cpu.state,
        state_bumped |-> state1,
        state |-> def.state]

(***************************************************************************)
(* Operator phase 2, worker phase 2 and operator phase 3a.                 *)
(***************************************************************************)
\* challenger.observe(commitment) and the observation of the record's
\* public values, for the records of one checkpoint in list order
RECURSIVE ObserveCheckpoint(_, _, _)
ObserveCheckpoint(observed, commitments, records) ==
    IF commitments = <<>> THEN observed
    ELSE ObserveCheckpoint(
             Append(observed, [commitment |-> Head(commitments),
                               public_values |-> Head(records).public_values]),
             Tail(commitments), Tail(records))

\* operator_phase2: the checkpoints in list order
RECURSIVE ObserveAll(_, _, _)
ObserveAll(observed, cvec, rvec) ==
    IF cvec = <<>> THEN observed
    ELSE ObserveAll(ObserveCheckpoint(observed, Head(cvec), Head(rvec)),
                    Tail(cvec), Tail(rvec))

EmptyChallenger == [built |-> FALSE, observed |-> <<>>]

operator_phase2(cvec, rvec) ==
    [built |-> TRUE, observed |-> ObserveAll(<<>>, cvec, rvec)]

\* proofs made one after the other on one transcript, each leaving its
\* record's observation behind for the next
RECURSIVE ProveShared(_, _)
ProveShared(observed, records) ==
    IF records = <<>> THEN <<>>
    ELSE <<[record |-> Head(records), challenger |-> observed]>>
         \o ProveShared(
                Append(observed,
                       [commitment |-> commit(Head(records)),
                        public_values |-> Head(records).public_values]),
                Tail(records))

\* a slip in the prover: the records proved on the shared state, no copy
worker_phase2_shared(challenger, records) ==
    ProveShared(challenger.observed, records)

\* worker_phase2: one proof per record, each against a copy of the state
worker_phase2(challenger, records) ==
    [j \in DOMAIN records |->
        [record |-> records[j], challenger |-> challenger.observed]]

EmptyProof ==
    [built |-> FALSE, shard_proofs |-> <<>>, cycles |-> 0,
     high_cycles |-> FALSE]

\* the check of the cycle count against the ceiling: a count above it is
\* flagged
check_for_high_cycles(n_cycles) == n_cycles > CycleCeiling

\* operator_phase3a: the cycle count checked, the shard proofs flattened in
\* list order into the proof
operator_phase3a(proofs_vec, n_cycles) ==
    [built |-> TRUE, shard_proofs |-> Flatten(proofs_vec), cycles |-> n_cycles,
     high_cycles |-> check_for_high_cycles(n_cycles)]

(***************************************************************************)
(* Opcode selectors (core/src/cpu/opcode_cols.rs).                         *)
(***************************************************************************)
\* the opcodes of the instruction set, by the predicate of Instruction that
\* recognises them
AluOpcodes ==
    {"ADD", "SUB", "XOR", "OR", "AND", "SLL", "SRL", "SRA", "SLT", "SLTU",
     "MUL", "MULH", "MULHU", "MULHSU", "DIV", "DIVU", "REM", "REMU"}

LoadOpcodes == {"LB", "LH", "LW", "LBU", "LHU"}

StoreOpcodes == {"SB", "SH", "SW"}

BranchOpcodes == {"BEQ", "BNE", "BLT", "BGE", "BLTU", "BGEU"}

Opcodes ==
    AluOpcodes \cup LoadOpcodes \cup StoreOpcodes \cup BranchOpcodes
    \cup {"JAL", "JALR", "AUIPC", "ECALL", "EBREAK", "UNIMP"}

is_alu_instruction(i) == i.opcode \in AluOpcodes

is_load_instruction(i) == i.opcode \in LoadOpcodes

is_store_instruction(i) == i.opcode \in StoreOpcodes

is_branch_instruction(i) == i.opcode \in BranchOpcodes

\* F::from_bool
from_bool(b) == IF b THEN 1 ELSE 0

\* OpcodeSelectors::default(): every selector F::zero()
DefaultSelectors ==
    [imm_b |-> 0, imm_c |-> 0,
     add_op |-> 0, sub_op |-> 0, mul_op |-> 0, div_op |-> 0, shift_op |-> 0,
     bitwise_op |-> 0, lt_op |-> 0,
     is_load |-> 0, is_store |-> 0, is_word |-> 0, is_half |-> 0,
     is_byte |-> 0, is_signed |-> 0,
     jalr |-> 0, jal |-> 0, auipc |-> 0,
     branch_op |-> 0, noop |-> 0, reg_0_write |-> 0]

\* a slip in the match: the multiply arm sets the mul_op selector
PopulateAluSetsMulOp(self, i) ==
    CASE i.opcode = "ADD" ->
            [selectors |-> [self EXCEPT !.add_op = 1], panicked |-> FALSE]
      [] i.opcode = "SUB" ->
            [selectors |-> [self EXCEPT !.sub_op = 1], panicked |-> FALSE]
      [] i.opcode \in {"XOR", "OR", "AND"} ->
            [selectors |-> [self EXCEPT !.bitwise_op = 1], panicked |-> FALSE]
      [] i.opcode \in {"SLL", "SRL", "SRA"} ->
            [selectors |-> [self EXCEPT !.shift_op = 1], panicked |-> FALSE]
      [] i.opcode \in {"SLT", "SLTU"} ->
            [selectors |-> [self EXCEPT !.lt_op = 1], panicked |-> FALSE]
      [] i.opcode \in {"MUL", "MULH", "MULHU", "MULHSU"} ->
            [selectors |-> [self EXCEPT !.mul_op = 1], panicked |-> FALSE]
      [] OTHER ->
            [selectors |-> self, panicked |-> TRUE]

\* the match on the opcode of an ALU instruction; panicked is the arm `_`
PopulateAlu(self, i) ==
    CASE i.opcode = "ADD" ->
            [selectors |-> [self EXCEPT !.add_op = 1], panicked |-> FALSE]
      [] i.opcode = "SUB" ->
            [selectors |-> [self EXCEPT !.sub_op = 1], panicked |-> FALSE]
      [] i.opcode \in {"XOR", "OR", "AND"} ->
            [selectors |-> [self EXCEPT !.bitwise_op = 1], panicked |-> FALSE]
      [] i.opcode \in {"SLL", "SRL", "SRA"} ->
            [selectors |-> [self EXCEPT !.shift_op = 1], panicked |-> FALSE]
      [] i.opcode \in {"SLT", "SLTU"} ->
            [selectors |-> [self EXCEPT !.lt_op = 1], panicked |-> FALSE]
      [] i.opcode \in {"MUL", "MULH", "MULHU", "MULHSU"} ->
            [selectors |-> self, panicked |-> FALSE]
      [] OTHER ->
            \* panic!("unexpected opcode {} in register instruction table
            \* processing")
            [selectors |-> self, panicked |-> TRUE]

\* the match on the opcode of a load; panicked is unreachable!()
PopulateLoad(self, i) ==
    LET s == [self EXCEPT !.is_load = 1]
    IN CASE i.opcode = "LB" ->
               [selectors |-> [s EXCEPT !.is_byte = 1, !.is_signed = 1],
                panicked |-> FALSE]
         [] i.opcode = "LBU" ->
               [selectors |-> [s EXCEPT !.is_byte = 1], panicked |-> FALSE]
         [] i.opcode = "LHU" ->
               [selectors |-> [s EXCEPT !.is_half = 1], panicked |-> FALSE]
         [] i.opcode = "LH" ->
               [selectors |-> [s EXCEPT !.is_half = 1, !.is_signed = 1],
                panicked |-> FALSE]
         [] i.opcode = "LW" ->
               [selectors |-> [s EXCEPT !.is_word = 1], panicked |-> FALSE]
         [] OTHER -> [selectors |-> s, panicked |-> TRUE]

\* the match on the opcode of a store; panicked is unreachable!()
PopulateStore(self, i) ==
    LET s == [self EXCEPT !.is_store = 1]
    IN CASE i.opcode = "SB" ->
               [selectors |-> [s EXCEPT !.is_byte = 1], panicked |-> FALSE]
         [] i.opcode = "SH" ->
               [selectors |-> [s EXCEPT !.is_half = 1], panicked |-> FALSE]
         [] i.opcode = "SW" ->
               [selectors |-> [s EXCEPT !.is_word = 1], panicked |-> FALSE]
         [] OTHER -> [selectors |-> s, panicked |-> TRUE]

\* the chain of categories: the first that recognises the instruction sets
\* its selectors; an instruction none recognises sets nothing
PopulateCategory(self, i) ==
    IF is_alu_instruction(i) THEN PopulateAlu(self, i)
    ELSE IF is_load_instruction(i) THEN PopulateLoad(self, i)
    ELSE IF is_store_instruction(i) THEN PopulateStore(self, i)
    ELSE IF is_branch_instruction(i)
    THEN [selectors |-> [self EXCEPT !.branch_op = 1], panicked |-> FALSE]
    ELSE IF i.opcode = "JAL"
    THEN [selectors |-> [self EXCEPT !.jal = 1], panicked |-> FALSE]
    ELSE IF i.opcode = "JALR"
    THEN [selectors |-> [self EXCEPT !.jalr = 1], panicked |-> FALSE]
    ELSE IF i.opcode = "UNIMP"
    THEN [selectors |-> [self EXCEPT !.noop = 1], panicked |-> FALSE]
    ELSE [selectors |-> self, panicked |-> FALSE]

\* a slip in the condition: the no-op is not excepted
Reg0WriteNoopForgotten(self, i) ==
    IF i.op_a = 0 /\ ~(self.branch_op = 1 \/ self.is_store = 1)
    THEN [self EXCEPT !.reg_0_write = 1]
    ELSE self

\* the write to register 0: flagged unless the instruction is a branch, a
\* store or a no-op
Reg0Write(self, i) ==
    IF i.op_a = 0
       /\ ~(self.branch_op = 1 \/ self.is_store = 1 \/ self.noop = 1)
    THEN [self EXCEPT !.reg_0_write = 1]
    ELSE self

\* OpcodeSelectors::populate: self as the call leaves it, or the panic
populate(self, i) ==
    LET imm == [self EXCEPT !.imm_b = from_bool(i.imm_b),
                            !.imm_c = from_bool(i.imm_c)]
        cat == PopulateCategory(imm, i)
    IN IF cat.panicked THEN cat
       ELSE [selectors |-> Reg0Write(cat.selectors, i), panicked |-> FALSE]

(***************************************************************************)
(* common::bootstrap.                                                      *)
(***************************************************************************)
LIMIT_RAM_GB == 120

SP1ProofKinds == {"Core", "Compressed", "Plonk"}

\* System::total_memory() / 1_000_000_000.  The model counts memory in
\* units of 10^6 bytes, so the divisor is 1000.
total_ram_gb(total_memory) == total_memory \div 1000

\* the test on the proof kind and the memory of the machine
NotEnoughMemory(kind, total_memory) ==
    kind = "Plonk" /\ total_ram_gb(total_memory) <= LIMIT_RAM_GB

\* bootstrap: the error, or the program built from the proving key's ELF
bootstrap(kind, total_memory) ==
    IF NotEnoughMemory(kind, total_memory)
    THEN [stage |-> "returned", kind |-> kind, total_memory |-> total_memory,
          result |-> "Err(not enough memory to generate plonk proof)",
          program_built |-> FALSE]
    ELSE [stage |-> "returned", kind |-> kind, total_memory |-> total_memory,
          result |-> "Ok", program_built |-> TRUE]

(***************************************************************************)
(* guest-lib: consts.rs and builder::prepare::EthHeaderPrepStrategy.       *)
(***************************************************************************)
GAS_LIMIT_BOUND_DIVISOR == 1024

MIN_GAS_LIMIT == 5000

MAX_EXTRA_DATA_BYTES == 32

BEDROCK_TIME == 1679079600

REGOLITH_TIME == 1679079600

CANYON_TIME == 1704992401

ECOTONE_TIME == 1710374401

\* bits of a BlockNumber (u64 in the code)
BlockNumberBits == 3

\* the largest BlockNumber
MaxBlockNumber == 2 ^ BlockNumberBits - 1

\* Option: None, and Some(value)
None == <<>>

Some(value) == <<value>>

\* Option::unwrap on a Some
unwrap(option) == option[1]

\* checked_add of an unsigned type whose largest value is max
checked_add(a, b, max) == IF a + b > max THEN None ELSE Some(a + b)

\* U256::abs_diff
abs_diff(a, b) == IF a >= b THEN a - b ELSE b - a

\* revm's SpecId values the chain specifications name, in their order
SpecIdOrder == <<"BEDROCK", "REGOLITH", "CANYON", "ECOTONE">>

SpecIds == {SpecIdOrder[k] : k \in DOMAIN SpecIdOrder}

\* the position of a SpecId in the order of the enum
SpecIdRank(spec_id) ==
    CHOOSE k \in DOMAIN SpecIdOrder : SpecIdOrder[k] = spec_id

\* ForkCondition::active
active(fork, block_number, timestamp) ==
    CASE fork.kind = "Block" -> fork.at <= block_number
      [] fork.kind = "Timestamp" -> fork.at <= timestamp
      [] fork.kind = "TBD" -> FALSE

\* OP_MAINNET_CHAIN_SPEC; hard_forks is a BTreeMap, kept in key order
OP_MAINNET_CHAIN_SPEC ==
    [chain_id |-> 10,
     max_spec_id |-> "ECOTONE",
     hard_forks |->
        <<[spec_id |-> "BEDROCK",
           fork |-> [kind |-> "Timestamp", at |-> BEDROCK_TIME]],
          [spec_id |-> "REGOLITH",
           fork |-> [kind |-> "Timestamp", at |-> REGOLITH_TIME]],
          [spec_id |-> "CANYON",
           fork |-> [kind |-> "Timestamp", at |-> CANYON_TIME]],
          [spec_id |-> "ECOTONE",
           fork |-> [kind |-> "Timestamp", at |-> ECOTONE_TIME]]>>]

\* ChainSpec::new_single
new_single(chain_id, spec_id) ==
    [chain_id |-> chain_id,
     max_spec_id |-> spec_id,
     hard_forks |-> <<[spec_id |-> spec_id,
                       fork |-> [kind |-> "Block", at |-> 0]]>>]

\* the scan of ChainSpec::spec_id over hard_forks[1..n], last entry first
RECURSIVE SpecIdScan(_, _, _, _)
SpecIdScan(hard_forks, n, block_number, timestamp) ==
    IF n = 0 THEN None
    ELSE IF active(hard_forks[n].fork, block_number, timestamp)
         THEN Some(hard_forks[n].spec_id)
         ELSE SpecIdScan(hard_forks, n - 1, block_number, timestamp)

\* ChainSpec::spec_id
spec_id(self, block_number, timestamp) ==
    SpecIdScan(self.hard_forks, Len(self.hard_forks), block_number, timestamp)

\* ChainSpec::active_fork
active_fork(self, block_number, timestamp) ==
    LET found == spec_id(self, block_number, timestamp)
    IN  IF found = None
        THEN [ok |-> FALSE, spec_id |-> None]
        ELSE IF SpecIdRank(unwrap(found)) > SpecIdRank(self.max_spec_id)
             THEN [ok |-> FALSE, spec_id |-> None]
             ELSE [ok |-> TRUE, spec_id |-> found]

\* Header::default, in the fields prepare_header decides
DefaultHeader ==
    [parent_hash |-> [keccak |-> None], number |-> 0, gas_limit |-> 0,
     timestamp |-> 0, extra_data |-> 0, gas_used |-> 0]

\* Header::hash: the digest of the encoded header, one per header
hash(header) == [keccak |-> header]

\* a slip in the bound: a difference equal to the limit is let through
GasLimitOutOfBoundsStrict(diff, limit) == diff > limit

\* the bound on the change of the gas limit
GasLimitOutOfBounds(diff, limit) == diff >= limit

\* prepare_header leaving with bail! or the ? operator: the builder is as
\* it was handed in
Bail(block_builder, error) ==
    [block_builder EXCEPT !.stage = "returned", !.result = "Err",
                          !.error = error]

\* EthHeaderPrepStrategy::prepare_header; extra_data stands for its length
prepare_header(block_builder) ==
    LET state_input == block_builder.input.state_input
        parent_header == state_input.parent_header
        diff == abs_diff(parent_header.gas_limit, state_input.gas_limit)
        limit == parent_header.gas_limit \div GAS_LIMIT_BOUND_DIVISOR
        timestamp == state_input.timestamp
        number == checked_add(parent_header.number, 1, MaxBlockNumber)
        fork == active_fork(block_builder.chain_spec, unwrap(number),
                            timestamp)
    IN  IF GasLimitOutOfBounds(diff, limit)
        THEN Bail(block_builder, "Invalid gas limit: expected +-")
        ELSE IF state_input.gas_limit < MIN_GAS_LIMIT
        THEN Bail(block_builder, "Invalid gas limit: expected >=")
        ELSE IF timestamp <= parent_header.timestamp
        THEN Bail(block_builder, "Invalid timestamp")
        ELSE IF state_input.extra_data > MAX_EXTRA_DATA_BYTES
        THEN Bail(block_builder, "Invalid extra data")
        ELSE IF number = None
        THEN Bail(block_builder, "Invalid number: too large")
        ELSE IF ~fork.ok
        THEN [block_builder EXCEPT !.stage = "returned",
                                   !.result = "panic",
                                   !.error = "Invalid version"]
        ELSE [block_builder EXCEPT
                 !.stage = "returned",
                 !.result = "Ok",
                 !.spec_id = fork.spec_id,
                 !.header =
                     Some([DefaultHeader EXCEPT
                         !.parent_hash = hash(parent_header),
                         !.number = unwrap(number),
                         !.gas_limit = state_input.gas_limit,
                         !.timestamp = timestamp,
                         !.extra_data = state_input.extra_data])]

(***************************************************************************)
(* guest-lib: builder::execute::optimism::OpTxExecStrategy.                *)
(***************************************************************************)
\* bits of a gas amount (U256 in the code)
GasBits == 3

\* the largest gas amount
MaxGas == 2 ^ GasBits - 1

\* U256 subtraction: a - b in the width of the type
wrapping_sub(a, b) == (a - b + 2 ^ GasBits) % (2 ^ GasBits)

\* a slip in the check: the gas already used is not taken off
BlockAvailableGasIgnoresUsed(gas_limit, cumulative_gas_used) == gas_limit

\* block_available_gas = gas_limit - cumulative_gas_used
BlockAvailableGas(gas_limit, cumulative_gas_used) ==
    wrapping_sub(gas_limit, cumulative_gas_used)

\* execute_transactions leaving with bail! or the ? operator
Abort(self, error) ==
    [self EXCEPT !.stage = "returned", !.result = "Err", !.error = error]

\* one iteration of the loop over the transactions, on the next
\* transaction of the input; gas_used is what the EVM reports for it
execute_transaction(self, gas_used) ==
    LET tx_no == self.tx_no
        tx == self.transactions[tx_no + 1]
        block_available_gas ==
            BlockAvailableGas(self.gas_limit, self.cumulative_gas_used)
        underflow == self.cumulative_gas_used > self.gas_limit
        sum == checked_add(self.cumulative_gas_used, gas_used, MaxGas)
    IN  IF ~tx.signed
        THEN Abort(self, "Error recovering address for transaction")
        ELSE IF block_available_gas < tx.gas_limit
        THEN Abort([self EXCEPT !.underflow = @ \/ underflow],
                   "gas exceeds block limit")
        ELSE IF sum = None
        THEN [self EXCEPT !.stage = "returned", !.result = "panic",
                          !.underflow = @ \/ underflow,
                          !.executed = Append(@, tx_no + 1),
                          !.gas_used = Append(@, gas_used)]
        ELSE [self EXCEPT !.tx_no = tx_no + 1,
                          !.underflow = @ \/ underflow,
                          !.executed = Append(@, tx_no + 1),
                          !.gas_used = Append(@, gas_used),
                          !.cumulative_gas_used = unwrap(sum)]

\* after the loop: header.gas_used = cumulative_gas_used
update_header(self) ==
    [self EXCEPT !.stage = "returned", !.result = "Ok",
                 !.header_gas_used = Some(self.cumulative_gas_used)]

(***************************************************************************)
(* The state of scenario::core_prove::multi_machine_prove.                 *)
(***************************************************************************)
VARIABLES
    pc,                 \* the statement multi_machine_prove is at
    runtime,            \* the execution engine: records and events so far
    checkpoints,        \* the checkpoints saved by operator phase 1
    public_values,      \* the public values operator phase 1 returned
    cycles,             \* the cycle count operator phase 1 returned
    commitments_vec,    \* per checkpoint, the commitments of phase 1
    records_vec,        \* per checkpoint, the records of phase 1
    phase1_locals,      \* per checkpoint, the locals of worker_phase1 at return
    challenger_state,   \* the transcript built by operator phase 2
    shard_proofs_vec,   \* per checkpoint, the proofs of phase 2
    proof,              \* the assembled proof
    verification,       \* what main asked of the verifier, and its answer
    selectors,          \* an OpcodeSelectors value (self of populate)
    instruction,        \* the instruction last handed to populate
    populate_status,    \* how many times selectors was populated, or "panic"
    bootstrap_state,    \* the call of common::bootstrap and its outcome
    worker_call,        \* one call of worker_phase1: its inputs and result
    block_builder,      \* the BlockBuilder handed to prepare_header
    execution           \* execute_transactions: its input, locals and result

pipelineVars == <<pc, runtime, checkpoints, public_values, cycles,
                  commitments_vec, records_vec, phase1_locals,
                  challenger_state, shard_proofs_vec, proof, verification>>

selectorVars == <<selectors, instruction, populate_status>>

vars == <<pc, runtime, checkpoints, public_values, cycles, commitments_vec,
          records_vec, phase1_locals, challenger_state, shard_proofs_vec,
          proof, verification, selectors, instruction, populate_status,
          bootstrap_state, worker_call, block_builder, execution>>

\* the state of the block builder of guest-lib
builderVars == <<block_builder, execution>>

\* the state of the other functions of the repository
otherVars == <<bootstrap_state, worker_call, block_builder, execution>>

\* main has not reached the verifier
NoVerification ==
    [checked |-> FALSE, proof_type |-> "none", verified |-> FALSE]

\* a fresh OpcodeSelectors value; no instruction handed to populate yet
InitSelectors ==
    /\ selectors = DefaultSelectors
    /\ instruction = [opcode |-> "none", op_a |-> 0,
                      imm_b |-> FALSE, imm_c |-> FALSE]
    /\ populate_status = "default"

\* bootstrap has not been called
InitBootstrap ==
    bootstrap_state = [stage |-> "start", kind |-> "none", total_memory |-> 0,
                       result |-> "none", program_built |-> FALSE]

\* worker_phase1 has not been called
InitWorkerCall ==
    worker_call = [stage |-> "start", idx |-> 0,
                   is_last_checkpoint |-> FALSE, traced |-> <<>>,
                   public_values |-> DefaultPublicValues, out |-> <<>>]

\* the builder BlockBuilder::new returns: no spec id and no header yet
InitBlockBuilder ==
    block_builder =
        [stage |-> "start", result |-> "none", error |-> "none",
         chain_spec |-> OP_MAINNET_CHAIN_SPEC,
         input |-> [state_input |->
                       [parent_header |-> DefaultHeader, gas_limit |-> 0,
                        timestamp |-> 0, extra_data |-> 0]],
         spec_id |-> None, header |-> None]

\* execute_transactions has not been called
InitExecution ==
    execution =
        [stage |-> "start", result |-> "none", error |-> "none",
         gas_limit |-> 0, transactions |-> <<>>, tx_no |-> 0,
         cumulative_gas_used |-> 0, executed |-> <<>>, gas_used |-> <<>>,
         underflow |-> FALSE, header_gas_used |-> None]

Init ==
    /\ InitSelectors
    /\ InitBootstrap
    /\ InitWorkerCall
    /\ InitBlockBuilder
    /\ InitExecution
    /\ verification = NoVerification
    /\ pc = "operator_phase1"
    /\ runtime = [shards |-> 0, events |-> 0, steps |-> 0, done |-> FALSE,
                  failed |-> FALSE,
                  last_public_values |-> DefaultPublicValues]
    /\ checkpoints = <<>>
    /\ public_values = DefaultPublicValues
    /\ cycles = 0
    /\ commitments_vec = <<>>
    /\ records_vec = <<>>
    /\ phase1_locals = <<>>
    /\ challenger_state = EmptyChallenger
    /\ shard_proofs_vec = <<>>
    /\ proof = EmptyProof

Min(a, b) == IF a <= b THEN a ELSE b

\* the deferred-event counts of the records of the next checkpoint
CheckpointShapes(rt) ==
    {counts \in UNION {[1..n -> 0..(MaxEvents - rt.events)] :
                          n \in 0..Min(ShardBatchSize, MaxShards - rt.shards)} :
        SumSeq(counts) <= MaxEvents - rt.events}

\* runtime.execute_state: the engine runs to the next checkpoint boundary
execute_state(rt, counts, done) ==
    LET records == EngineRecords(counts, rt.shards, rt.events)
    IN [shards |-> rt.shards + Len(counts),
        events |-> rt.events + SumSeq(counts),
        steps |-> rt.steps + 1,
        done |-> done,
        failed |-> rt.failed,
        last_public_values |->
            IF records = <<>> THEN rt.last_public_values
            ELSE records[Len(records)].public_values]

\* a slip in the error path: the error is swallowed and the step retried
OnExecutionErrorRetry(saved) ==
    [pc |-> "operator_phase1", checkpoints |-> saved]

\* .map_err(SP1CoreProverError::ExecutionError)? and the unwrap of the
\* caller: the error is returned without the checkpoints saved so far, and
\* the run aborts
OnExecutionError(saved) ==
    [pc |-> "execution_error", checkpoints |-> <<>>]

\* a slip in the collection: the checkpoint put in front of the earlier ones
PushCheckpointFront(cps, checkpoint_file) == <<checkpoint_file>> \o cps

\* checkpoints.push(checkpoint_file)
PushCheckpoint(cps, checkpoint_file) == Append(cps, checkpoint_file)

\* one iteration of the loop of generate_checkpoints (operator phase 1)
ExecuteState ==
    /\ pc = "operator_phase1"
    /\ \/ \E counts \in CheckpointShapes(runtime), done \in BOOLEAN :
             /\ Len(checkpoints) + 1 = MaxCheckpoints => done
             /\ LET rt == execute_state(runtime, counts, done)
                IN /\ runtime' = rt
                   /\ checkpoints' = PushCheckpoint(checkpoints,
                          save(EngineRecords(counts, runtime.shards,
                                             runtime.events)))
                   /\ IF ~done
                      THEN /\ pc' = pc
                           /\ UNCHANGED <<public_values, cycles>>
                      ELSE IF rt.shards = 0
                      THEN \* .expect("at least one record")
                           /\ pc' = "panic"
                           /\ UNCHANGED <<public_values, cycles>>
                      ELSE /\ pc' = "worker_phase1"
                           /\ public_values' = rt.last_public_values
                           /\ cycles' = rt.shards
       \/ \* runtime.execute_state() returns an execution error
          /\ runtime' = [runtime EXCEPT !.failed = TRUE]
          /\ pc' = OnExecutionError(checkpoints).pc
          /\ checkpoints' = OnExecutionError(checkpoints).checkpoints
          /\ UNCHANGED <<public_values, cycles>>
    /\ UNCHANGED <<commitments_vec, records_vec, phase1_locals,
                   challenger_state, shard_proofs_vec, proof, verification>>
    /\ UNCHANGED <<selectorVars, otherVars>>

\* a slip in the loop: it is left after its first call
AfterWorkerFirst(finished, total, again, next) == next

\* where the loop over the checkpoints goes after `finished` of `total` calls
AfterWorker(finished, total, again, next) ==
    IF finished = total THEN next ELSE again

\* a slip in the flag: compared with the length instead of the last index
IsLastCheckpointOffByOne(idx, num_checkpoints) == idx = num_checkpoints

\* is_last_checkpoint = idx == num_checkpoints - 1
IsLastCheckpoint(idx, num_checkpoints) == idx = num_checkpoints - 1

\* a slip in the loop: every call is handed the first checkpoint
CheckpointAtFirst(cps, idx) == cps[1]

\* checkpoints.iter_mut().enumerate(): the checkpoint paired with idx
CheckpointAt(cps, idx) == cps[idx + 1]

\* one iteration of the first loop of multi_machine_prove
WorkerPhase1 ==
    /\ pc = "worker_phase1"
    /\ LET idx == Len(records_vec)
           num_checkpoints == Len(checkpoints)
           out == worker_phase1(idx, CheckpointAt(checkpoints, idx),
                                IsLastCheckpoint(idx, num_checkpoints),
                                public_values)
       IN /\ commitments_vec' = Append(commitments_vec,
                 [j \in DOMAIN out.commitments |-> out.commitments[j][1]])
          /\ records_vec' = Append(records_vec,
                 [j \in DOMAIN out.commitments |-> out.commitments[j][2]])
          /\ phase1_locals' = Append(phase1_locals,
                 [idx |-> out.idx,
                  is_last_checkpoint |-> IsLastCheckpoint(idx, num_checkpoints),
                  deferred |-> out.deferred,
                  written |-> out.written,
                  split_shards |-> out.split_shards,
                  state_in |-> out.state_in,
                  state_cpu |-> out.state_cpu,
                  state_bumped |-> out.state_bumped,
                  state |-> out.state])
          /\ \* the call moves only the position of the file it is handed
             checkpoints' = [checkpoints EXCEPT
                                ![idx + 1].pos = out.checkpoint.pos]
          /\ pc' = IF out.read_ok
                   THEN AfterWorker(idx + 1, num_checkpoints,
                                    "worker_phase1", "operator_phase2")
                   ELSE \* .expect("failed to deserialize state")
                        "panic"
    /\ UNCHANGED <<runtime, public_values, cycles,
                   challenger_state, shard_proofs_vec, proof, verification>>
    /\ UNCHANGED <<selectorVars, otherVars>>

OperatorPhase2 ==
    /\ pc = "operator_phase2"
    /\ challenger_state' = operator_phase2(commitments_vec, records_vec)
    /\ pc' = "worker_phase2"
    /\ UNCHANGED <<runtime, checkpoints, public_values, cycles,
                   commitments_vec, records_vec, phase1_locals,
                   shard_proofs_vec, proof, verification>>
    /\ UNCHANGED <<selectorVars, otherVars>>

\* a slip in the loop: every worker is handed the first list of records
RecordsForWorkerFirst(rvec, idx) == rvec[1]

\* records_vec.into_iter().enumerate(): the records paired with idx
RecordsForWorker(rvec, idx) == rvec[idx + 1]

\* a slip in the collection: the proofs put in front of the earlier ones
PushShardProofsFront(proofs_vec, shard_proofs) ==
    <<shard_proofs>> \o proofs_vec

\* shard_proofs_vec.push(shard_proofs)
PushShardProofs(proofs_vec, shard_proofs) == Append(proofs_vec, shard_proofs)

\* one iteration of the second loop of multi_machine_prove
WorkerPhase2 ==
    /\ pc = "worker_phase2"
    /\ LET idx == Len(shard_proofs_vec)
       IN /\ shard_proofs_vec' = PushShardProofs(shard_proofs_vec,
                 worker_phase2(challenger_state,
                               RecordsForWorker(records_vec, idx)))
          /\ pc' = AfterWorker(idx + 1, Len(records_vec),
                               "worker_phase2", "operator_phase3a")
    /\ UNCHANGED <<runtime, checkpoints, public_values, cycles,
                   commitments_vec, records_vec, phase1_locals,
                   challenger_state, proof, verification>>
    /\ UNCHANGED <<selectorVars, otherVars>>

\* a slip in the call: the assembler is handed no cycle count
CyclesForAssemblerZero(n_cycles) == 0

\* the cycle count of operator phase 1, handed to operator_phase3a
CyclesForAssembler(n_cycles) == n_cycles

OperatorPhase3a ==
    /\ pc = "operator_phase3a"
    /\ proof' = operator_phase3a(shard_proofs_vec, CyclesForAssembler(cycles))
    /\ pc' = "done"
    /\ UNCHANGED <<runtime, checkpoints, public_values, cycles,
                   commitments_vec, records_vec, phase1_locals,
                   challenger_state, shard_proofs_vec, verification>>
    /\ UNCHANGED <<selectorVars, otherVars>>

\* the proof types of the command line
ProofTypes == {"CORE", "COMPRESS"}

\* operator_core_end: the core proof is verified; a failure is fatal
operator_core_end(verified) ==
    IF verified THEN "core_verified" ELSE "failed to verify proof"

\* a slip in main: the answer of the verifier is not looked at
OnVerifyIgnored(verified) == "verified"

\* client.verify(&proof, &vk).expect("failed to verify proof"), then
\* "Successfully verified proof"
OnVerify(verified) ==
    IF verified THEN "verified" ELSE "failed to verify proof"

\* main after multi_machine_prove has returned the core proof; verified is
\* the answer of the verifier
Main ==
    /\ pc = "done"
    /\ \E proof_type \in ProofTypes, verified \in BOOLEAN :
          /\ verification' = [checked |-> TRUE, proof_type |-> proof_type,
                              verified |-> verified]
          /\ pc' = IF proof_type = "CORE"
                   THEN operator_core_end(verified)
                   ELSE OnVerify(verified)
    /\ UNCHANGED <<runtime, checkpoints, public_values, cycles,
                   commitments_vec, records_vec, phase1_locals,
                   challenger_state, shard_proofs_vec, proof>>
    /\ UNCHANGED <<selectorVars, otherVars>>

Next ==
    \/ ExecuteState
    \/ WorkerPhase1
    \/ OperatorPhase2
    \/ WorkerPhase2
    \/ OperatorPhase3a
    \/ Main

Spec == Init /\ [][Next]_vars

\* multi_machine_prove is sequential code: once the checkpoints are
\* returned, each loop iteration and each stage that can run does run.
\* Each conjunct is weak fairness of one stage, WF_vars(A), with
\* ENABLED <<A>>_vars written out: a stage is enabled exactly when pc stands
\* at it, and its step always changes the state
LiveSpec ==
    /\ Spec
    /\ ([]<>(pc # "worker_phase1") \/ []<><<WorkerPhase1>>_vars)
    /\ ([]<>(pc # "operator_phase2") \/ []<><<OperatorPhase2>>_vars)
    /\ ([]<>(pc # "worker_phase2") \/ []<><<WorkerPhase2>>_vars)
    /\ ([]<>(pc # "operator_phase3a") \/ []<><<OperatorPhase3a>>_vars)

(***************************************************************************)
(* OpcodeSelectors::populate on a fresh value, and again on the value an   *)
(* earlier call has populated.                                             *)
(***************************************************************************)
\* the highest register number an instruction names
MaxReg == 1

\* the decoded instructions: op_b and op_c are immediates for neither, for
\* op_c only, or for both
Instructions ==
    {[opcode |-> o, op_a |-> a, imm_b |-> imm[1], imm_c |-> imm[2]] :
        o \in Opcodes, a \in 0..MaxReg,
        imm \in {<<FALSE, FALSE>>, <<FALSE, TRUE>>, <<TRUE, TRUE>>}}

\* what a call of populate leaves behind: status when it returns, failure
\* when it panics
Populated(self, i, status, failure) ==
    LET out == populate(self, i)
    IN /\ selectors' = out.selectors
       /\ instruction' = i
       /\ populate_status' = IF out.panicked THEN failure ELSE status

\* populate on OpcodeSelectors::default()
Populate ==
    /\ populate_status = "default"
    /\ \E i \in Instructions :
          Populated(selectors, i, "populated", "panic")
    /\ UNCHANGED <<pipelineVars, otherVars>>

\* populate on selectors an earlier call has populated
PopulateAgain ==
    /\ populate_status = "populated"
    /\ \E i \in Instructions :
          Populated(selectors, i, "repopulated", "panic again")
    /\ UNCHANGED <<pipelineVars, otherVars>>

NextPopulate ==
    \/ Populate
    \/ PopulateAgain

SpecPopulate == Init /\ [][NextPopulate]_vars

(***************************************************************************)
(* worker_phase1 on one checkpoint, whatever public values re-execution    *)
(* left in its records and whatever public values operator phase 1         *)
(* returned.                                                               *)
(***************************************************************************)
\* the records of a checkpoint with v in the public-value fields that the
\* engine does not number
WithPublicValues(records, v) ==
    [j \in DOMAIN records |->
        [records[j] EXCEPT
            !.public_values.previous_init_addr_bits = v,
            !.public_values.last_init_addr_bits = v,
            !.public_values.previous_finalize_addr_bits = v,
            !.public_values.last_finalize_addr_bits = v,
            !.public_values.exit_code = v]]

\* the records a checkpoint may re-execute to: up to ShardBatchSize shards
\* after `first` earlier ones, with up to MaxEvents deferred events
TracedRecords ==
    {WithPublicValues(EngineRecords(counts, first, 0), v) :
        counts \in {c \in UNION {[1..n -> 0..MaxEvents] :
                                    n \in 0..ShardBatchSize} :
                       SumSeq(c) <= MaxEvents},
        first \in {0, ShardBatchSize},
        v \in {0, 1}}

\* the public values operator phase 1 may return: those of a last record
TerminalPublicValues ==
    {[DefaultPublicValues EXCEPT
         !.shard = k, !.execution_shard = k, !.start_pc = 4 * k,
         !.next_pc = 4 * (k + 1), !.last_init_addr_bits = b,
         !.last_finalize_addr_bits = b, !.exit_code = e] :
        k \in {1, MaxShards}, b \in {0, 2}, e \in {0, 2}}

\* one call of worker_phase1
CallWorkerPhase1 ==
    /\ worker_call.stage = "start"
    /\ \E idx \in 0..(MaxCheckpoints - 1), is_last_checkpoint \in BOOLEAN,
          traced \in TracedRecords, pv \in TerminalPublicValues :
          worker_call' =
              [stage |-> "returned", idx |-> idx,
               is_last_checkpoint |-> is_last_checkpoint,
               traced |-> traced, public_values |-> pv,
               out |-> worker_phase1(idx, save(traced), is_last_checkpoint,
                                     pv)]
    /\ UNCHANGED <<pipelineVars, selectorVars, bootstrap_state, builderVars>>

NextWorker == CallWorkerPhase1

SpecWorker == Init /\ [][NextWorker]_vars

(***************************************************************************)
(* common::bootstrap on machines of different sizes.                       *)
(***************************************************************************)
\* total memory of the machine, in units of 10^6 bytes: around the limit
\* of the code and around 128 GB
TotalMemories ==
    {g * 1000 + r : g \in 110..135, r \in {0, 1, 500, 999}}

\* one call of bootstrap; kind stands for SP1ProofKind::default(), which
\* the SDK defines
Bootstrap ==
    /\ bootstrap_state.stage = "start"
    /\ \E kind \in SP1ProofKinds, total_memory \in TotalMemories :
          bootstrap_state' = bootstrap(kind, total_memory)
    /\ UNCHANGED <<pipelineVars, selectorVars, worker_call, builderVars>>

NextBootstrap == Bootstrap

SpecBootstrap == Init /\ [][NextBootstrap]_vars

(***************************************************************************)
(* EthHeaderPrepStrategy::prepare_header on builders whose input lies      *)
(* around each bound the function checks.                                  *)
(***************************************************************************)
\* gas limits of the parent header: around the divisor and the minimum
ParentGasLimits ==
    {0, GAS_LIMIT_BOUND_DIVISOR - 1, GAS_LIMIT_BOUND_DIVISOR,
     MIN_GAS_LIMIT + 1, 5 * GAS_LIMIT_BOUND_DIVISOR,
     30 * GAS_LIMIT_BOUND_DIVISOR + 7}

\* gas limits of the new block: around the parent's and around the bound
GasLimitsNear(parent) ==
    LET limit == parent \div GAS_LIMIT_BOUND_DIVISOR
    IN  {g \in {parent - limit - 1, parent - limit, parent - limit + 1,
                parent - 2, parent, parent + 2, parent + limit - 1,
                parent + limit, parent + limit + 1} : g >= 0}

\* timestamps of the parent header: around the forks of the chain
ParentTimestamps ==
    {0, BEDROCK_TIME - 1, BEDROCK_TIME, CANYON_TIME - 1, ECOTONE_TIME}

\* timestamps of the new block
TimestampsNear(parent) == {t \in {parent - 1, parent, parent + 1} : t >= 0}

\* lengths of the extra data
ExtraDataLengths ==
    {0, MAX_EXTRA_DATA_BYTES - 1, MAX_EXTRA_DATA_BYTES,
     MAX_EXTRA_DATA_BYTES + 1}

\* numbers of the parent header
ParentNumbers == {0, 1, MaxBlockNumber - 1, MaxBlockNumber}

\* the chain specifications a builder is made with
ChainSpecs ==
    {OP_MAINNET_CHAIN_SPEC, new_single(10, "BEDROCK"),
     new_single(10, "CANYON")}

\* one call of prepare_header
PrepareHeader ==
    /\ block_builder.stage = "start"
    /\ \E chain_spec \in ChainSpecs, parent_gas_limit \in ParentGasLimits,
          parent_timestamp \in ParentTimestamps,
          parent_number \in ParentNumbers,
          extra_data \in ExtraDataLengths :
          \E gas_limit \in GasLimitsNear(parent_gas_limit),
             timestamp \in TimestampsNear(parent_timestamp) :
             block_builder' =
                 prepare_header(
                     [block_builder EXCEPT
                         !.chain_spec = chain_spec,
                         !.input.state_input =
                             [parent_header |->
                                  [DefaultHeader EXCEPT
                                      !.gas_limit = parent_gas_limit,
                                      !.timestamp = parent_timestamp,
                                      !.number = parent_number],
                              gas_limit |-> gas_limit,
                              timestamp |-> timestamp,
                              extra_data |-> extra_data]])
    /\ UNCHANGED <<pipelineVars, selectorVars, bootstrap_state, worker_call,
                   execution>>

NextPrepare == PrepareHeader

SpecPrepare == Init /\ [][NextPrepare]_vars

(***************************************************************************)
(* OpTxExecStrategy::execute_transactions on blocks of a few transactions, *)
(* the EVM using any amount of gas up to the transaction's gas limit.      *)
(***************************************************************************)
\* transactions of a block, at most
MaxTxs == 3

\* gas limits of a block
BlockGasLimits == {0, 2, MaxGas - 1, MaxGas}

\* the transactions of the input: a gas limit each, and whether the signer
\* can be recovered
Transactions ==
    {[gas_limit |-> g, signed |-> TRUE] : g \in {0, 1, 2, MaxGas}}
        \cup {[gas_limit |-> 1, signed |-> FALSE]}

\* execute_transactions is entered: the counter starts at zero
BeginExecute ==
    /\ execution.stage = "start"
    /\ \E gas_limit \in BlockGasLimits,
          transactions \in UNION {[1..n -> Transactions] : n \in 0..MaxTxs} :
          execution' = [execution EXCEPT !.stage = "loop",
                                         !.gas_limit = gas_limit,
                                         !.transactions = transactions,
                                         !.cumulative_gas_used = 0]
    /\ UNCHANGED <<pipelineVars, selectorVars, bootstrap_state, worker_call,
                   block_builder>>

\* one iteration of the loop
ExecuteTransaction ==
    /\ execution.stage = "loop"
    /\ execution.tx_no < Len(execution.transactions)
    /\ \E gas_used \in
             0..execution.transactions[execution.tx_no + 1].gas_limit :
          execution' = execute_transaction(execution, gas_used)
    /\ UNCHANGED <<pipelineVars, selectorVars, bootstrap_state, worker_call,
                   block_builder>>

\* the loop is over: the header is updated and the builder returned
UpdateHeader ==
    /\ execution.stage = "loop"
    /\ execution.tx_no = Len(execution.transactions)
    /\ execution' = update_header(execution)
    /\ UNCHANGED <<pipelineVars, selectorVars, bootstrap_state, worker_call,
                   block_builder>>

NextExecute ==
    \/ BeginExecute
    \/ ExecuteTransaction
    \/ UpdateHeader

SpecExecute == Init /\ [][NextExecute]_vars

(***************************************************************************)
(* Properties.                                                             *)
(***************************************************************************)
\* every checkpoint has been materialised by worker phase 1
Phase1Complete ==
    /\ runtime.done
    /\ pc # "panic"
    /\ Len(records_vec) = Len(checkpoints)

\* the records of phase 1, concatenated in checkpoint order
AllRecords == Flatten(records_vec)

\* the deferred events the records of checkpoint i carry out of re-execution
CheckpointEvents(i) ==
    Flatten([j \in DOMAIN checkpoints[i].records |->
                checkpoints[i].records[j].deferred_events])

\* the deferred events in the deferred records returned for checkpoint i
EmittedEvents(i) ==
    Flatten([j \in DOMAIN records_vec[i] |->
                IF records_vec[i][j].kind = "deferred"
                THEN records_vec[i][j].deferred_events ELSE <<>>])

DeferredRecordsOf(i) ==
    {j \in DOMAIN records_vec[i] : records_vec[i][j].kind = "deferred"}

CpuRecordsOf(i) ==
    {j \in DOMAIN records_vec[i] : records_vec[i][j].kind = "cpu"}

\* C1: once every checkpoint is materialised, the shard values of the
\* records concatenated in checkpoint order are exactly 1, 2, ..., k.
C1_ShardsAreOneToK ==
    Phase1Complete =>
        \A j \in DOMAIN AllRecords : AllRecords[j].public_values.shard = j

\* C2: every record of checkpoint i carries a shard strictly greater than
\* the shard of every record of checkpoint i-1.
C2_ShardsGrowAcrossCheckpoints ==
    \A i \in DOMAIN records_vec :
        i > 1 =>
            \A a \in Range(records_vec[i - 1]), b \in Range(records_vec[i]) :
                b.public_values.shard > a.public_values.shard

\* how many entries the transcript holds before those of checkpoint i
Offset(i) == SumSeq([k \in 1..(i - 1) |-> Len(records_vec[k])])

\* C4: the transcript holds one entry per record of phase 1, the entry of the
\* j-th record of checkpoint i at position Offset(i) + j (checkpoints in
\* ascending index, no interleaving), made of the record's commitment and
\* public values, with each checkpoint's ordinary records in re-execution
\* order before its deferred records.
C4_MergerObservesInOrder ==
    challenger_state.built =>
        /\ Len(challenger_state.observed) = Len(AllRecords)
        /\ \A i \in DOMAIN records_vec : \A j \in DOMAIN records_vec[i] :
              /\ challenger_state.observed[Offset(i) + j] =
                     [commitment |-> commitments_vec[i][j],
                      public_values |-> records_vec[i][j].public_values]
              /\ commitments_vec[i][j][2] = records_vec[i][j].cpu_events
              /\ commitments_vec[i][j][3] = records_vec[i][j].deferred_events
        /\ \A i \in DOMAIN records_vec :
              /\ \A j \in CpuRecordsOf(i), k \in DeferredRecordsOf(i) : j < k
              /\ \A j \in CpuRecordsOf(i) :
                    records_vec[i][j].cpu_events =
                        checkpoints[i].records[j].cpu_events

C4_Witness ==
    /\ challenger_state.built
    /\ Len(records_vec) >= 2
    /\ \E i \in DOMAIN records_vec :
          /\ Cardinality(CpuRecordsOf(i)) >= 2
          /\ DeferredRecordsOf(i) # {}
    /\ \E i \in DOMAIN records_vec : i > 1 /\ records_vec[i] # <<>>

\* C6: no worker_phase1 result exists before the checkpointer is done, the
\* transcript is built only when every checkpoint is materialised, no proof
\* of phase 2 exists before the transcript is built, and the final proof is
\* assembled only when every checkpoint's records are proved.
C6_BarrierSynchronized ==
    /\ records_vec # <<>> => runtime.done
    /\ challenger_state.built => Len(records_vec) = Len(checkpoints)
    /\ shard_proofs_vec # <<>> => challenger_state.built
    /\ proof.built => Len(shard_proofs_vec) = Len(checkpoints)

C6_Witness ==
    /\ proof.built
    /\ Len(checkpoints) >= 2
    /\ Len(shard_proofs_vec) = Len(checkpoints)

\* the number of times worker_phase1 incremented the execution-shard counter
\* for the checkpoint with the locals l
ExecutionShardIncrements(l) ==
    l.state_bumped.execution_shard - l.state_cpu.execution_shard

\* C7 (as stated): the execution-shard counter is incremented once for a
\* non-final checkpoint with at least one cpu record, and not at all for a
\* checkpoint without one or for the final checkpoint.
C7_IncrementOnlyWithCpuRecord ==
    \A i \in DOMAIN phase1_locals :
        ExecutionShardIncrements(phase1_locals[i]) =
            IF i # Len(checkpoints) /\ checkpoints[i].records # <<>>
            THEN 1 ELSE 0

\* C7 (amended): the execution-shard counter is incremented exactly once for
\* every non-final checkpoint, with or without cpu records, and never for
\* the final checkpoint.
C7_IncrementPerNonFinalCheckpoint ==
    \A i \in DOMAIN phase1_locals :
        ExecutionShardIncrements(phase1_locals[i]) =
            IF i # Len(checkpoints) THEN 1 ELSE 0

C7_Witness ==
    /\ Phase1Complete
    /\ Len(checkpoints) >= 2
    /\ \E i \in DOMAIN phase1_locals :
          i # Len(checkpoints) /\ checkpoints[i].records = <<>>
    /\ \E i \in DOMAIN phase1_locals :
          i # Len(checkpoints) /\ checkpoints[i].records # <<>>
    /\ checkpoints[Len(checkpoints)].records # <<>>

\* C8: after worker_phase1 with is_last_checkpoint, the local deferred
\* record is empty and every event accumulated from the checkpoint's records
\* is in the deferred records returned.
C8_LastCheckpointFlushesAll ==
    \A i \in DOMAIN phase1_locals :
        phase1_locals[i].is_last_checkpoint =>
            /\ phase1_locals[i].deferred.deferred_events = <<>>
            /\ EmittedEvents(i) = CheckpointEvents(i)

C8_Witness ==
    \E i \in DOMAIN phase1_locals :
        /\ phase1_locals[i].is_last_checkpoint
        /\ Len(CheckpointEvents(i)) % SplitThreshold # 0
        /\ Len(CheckpointEvents(i)) > SplitThreshold

\* C9: after worker_phase1 without is_last_checkpoint on a checkpoint whose
\* records carry fewer deferred events than the split threshold, no deferred
\* record is returned: the list is as long as the ordinary records are many
\* and the shard counter has advanced by that number.
C9_NoDeferredRecordBelowThreshold ==
    \A i \in DOMAIN phase1_locals :
        (/\ ~phase1_locals[i].is_last_checkpoint
         /\ Len(CheckpointEvents(i)) < SplitThreshold) =>
            /\ DeferredRecordsOf(i) = {}
            /\ Len(records_vec[i]) = Len(checkpoints[i].records)
            /\ phase1_locals[i].state.shard - phase1_locals[i].state_in.shard
                   = Len(checkpoints[i].records)

C9_Witness ==
    \E i \in DOMAIN phase1_locals :
        /\ ~phase1_locals[i].is_last_checkpoint
        /\ Len(CheckpointEvents(i)) < SplitThreshold
        /\ Len(CheckpointEvents(i)) > 0
        /\ Len(checkpoints[i].records) >= 2

\* the deferred records of phase 1 that hold the event e
HoldersOf(e) ==
    UNION {{<<i, j>> : j \in {k \in DeferredRecordsOf(i) :
                                e \in Range(records_vec[i][k].deferred_events)}} :
           i \in DOMAIN records_vec}

\* C10: once the final checkpoint is materialised, every deferred event the
\* engine produced is in exactly one deferred record of phase 1.
C10_DeferredEventsEmittedOnce ==
    Phase1Complete =>
        \A e \in 1..runtime.events : Cardinality(HoldersOf(e)) = 1

\* C11 (as stated): when worker_phase1 writes the running state into a
\* record's public values, dependency generation has already run over the
\* record.
C11_DependenciesBeforePublicValues ==
    \A i \in DOMAIN phase1_locals :
        \A j \in DOMAIN phase1_locals[i].written :
            phase1_locals[i].written[j].dependencies

\* C11 (amended): worker_phase1 writes the running state into every ordinary
\* record's public values before dependency generation runs over the batch
\* (the records it is given already carry the written values), and the
\* public values of the deferred records are written after it.
C11_PublicValuesBeforeDependencies ==
    \A i \in DOMAIN phase1_locals :
        /\ \A j \in DOMAIN phase1_locals[i].written :
              /\ ~phase1_locals[i].written[j].dependencies
              /\ records_vec[i][j].dependencies
              /\ records_vec[i][j].public_values =
                     phase1_locals[i].written[j].public_values
              /\ phase1_locals[i].written[j].public_values.shard =
                     phase1_locals[i].state_in.shard + j
        /\ \A j \in DeferredRecordsOf(i) : ~records_vec[i][j].dependencies

C11_Witness ==
    \E i \in DOMAIN phase1_locals :
        /\ Len(phase1_locals[i].written) >= 2
        /\ DeferredRecordsOf(i) # {}
        /\ i > 1

\* C12: a record keeps the contents and public values it was committed
\* with: at every later point of the pipeline the record of phase 1 still
\* has the commitment it was paired with, records and commitments already
\* collected never change, and the record a proof of phase 2 was made for
\* is the record that was committed.
C12_CommittedRecordsImmutable ==
    /\ [](\A i \in DOMAIN records_vec : \A j \in DOMAIN records_vec[i] :
             commit(records_vec[i][j]) = commitments_vec[i][j])
    /\ [](\A i \in DOMAIN shard_proofs_vec :
             \A j \in DOMAIN shard_proofs_vec[i] :
                 commit(shard_proofs_vec[i][j].record) = commitments_vec[i][j])
    /\ [][\A i \in DOMAIN records_vec :
             /\ records_vec'[i] = records_vec[i]
             /\ commitments_vec'[i] = commitments_vec[i]]_vars

C12_Witness ==
    /\ pc = "done"
    /\ Len(shard_proofs_vec) >= 2
    /\ \E i \in DOMAIN shard_proofs_vec :
          /\ Len(shard_proofs_vec[i]) >= 2
          /\ DeferredRecordsOf(i) # {}

\* the number of records the split of checkpoint i made
SplitCount(i) == Len(phase1_locals[i].split_shards)

\* C13: the list worker_phase1 returns for checkpoint i holds one pair per
\* ordinary record and per newly split deferred record: first the ordinary
\* records in re-execution order, then the deferred records in split order,
\* each paired with the commit of that record.
C13_OnePairPerRecord ==
    \A i \in DOMAIN phase1_locals :
        LET ordinary == Len(checkpoints[i].records)
        IN /\ Len(records_vec[i]) = ordinary + SplitCount(i)
           /\ Len(commitments_vec[i]) = Len(records_vec[i])
           /\ \A j \in 1..ordinary :
                 /\ records_vec[i][j].kind = "cpu"
                 /\ records_vec[i][j].cpu_events =
                        checkpoints[i].records[j].cpu_events
           /\ \A j \in 1..SplitCount(i) :
                 /\ records_vec[i][ordinary + j].kind = "deferred"
                 /\ records_vec[i][ordinary + j].deferred_events =
                        phase1_locals[i].split_shards[j].deferred_events
           /\ \A j \in DOMAIN records_vec[i] :
                 commitments_vec[i][j] = commit(records_vec[i][j])

C13_Witness ==
    \E i \in DOMAIN phase1_locals :
        /\ Len(checkpoints[i].records) >= 2
        /\ SplitCount(i) >= 1
        /\ Len(records_vec[i]) >= 3

\* the cpu traces of a list of records
CpuTraces(records) == [j \in DOMAIN records |-> records[j].cpu_events]

\* the stages that follow the loop over the checkpoints
AfterPhase1 ==
    pc \in {"operator_phase2", "worker_phase2", "operator_phase3a", "done",
            "verified", "core_verified", "failed to verify proof"}

\* C14: the i-th worker_phase1 invocation of a run receives idx = i - 1 and
\* re-executes the checkpoint at that position, so no checkpoint is
\* materialised twice; once the loop is over every checkpoint has been
\* materialised.
C14_EachCheckpointMaterializedOnce ==
    /\ Len(phase1_locals) <= Len(checkpoints)
    /\ \A i \in DOMAIN phase1_locals :
          /\ phase1_locals[i].idx = i - 1
          /\ CpuTraces(phase1_locals[i].written) =
                 CpuTraces(checkpoints[i].records)
    /\ AfterPhase1 => Len(phase1_locals) = Len(checkpoints)

C14_Witness ==
    /\ AfterPhase1
    /\ Len(checkpoints) >= 3
    /\ \A i \in DOMAIN checkpoints : checkpoints[i].records # <<>>

\* C15: a worker_phase1 invocation receives is_last_checkpoint = true
\* exactly when its checkpoint is the last of the sequence, the one at which
\* the engine reported done; once the loop is over exactly one invocation
\* has received true.
C15_OneLastCheckpoint ==
    /\ phase1_locals # <<>> => runtime.done
    /\ \A i \in DOMAIN phase1_locals :
          phase1_locals[i].is_last_checkpoint <=> i = Len(checkpoints)
    /\ AfterPhase1 =>
          Cardinality({i \in DOMAIN phase1_locals :
                          phase1_locals[i].is_last_checkpoint}) = 1

C15_Witness ==
    /\ AfterPhase1
    /\ Len(phase1_locals) >= 3
    /\ phase1_locals[Len(phase1_locals)].is_last_checkpoint

\* C17: the transcript built by operator phase 2 never changes afterwards,
\* and every proof of phase 2, whichever record of whichever worker it is
\* for, was made against exactly that transcript.
C17_ChallengerStateUnchanged ==
    /\ [][challenger_state.built => challenger_state' = challenger_state]_vars
    /\ [](\A i \in DOMAIN shard_proofs_vec :
             \A j \in DOMAIN shard_proofs_vec[i] :
                 shard_proofs_vec[i][j].challenger = challenger_state.observed)

C17_Witness ==
    /\ Len(shard_proofs_vec) >= 2
    /\ \E i \in DOMAIN shard_proofs_vec : Len(shard_proofs_vec[i]) >= 2
    /\ shard_proofs_vec[Len(shard_proofs_vec)] # <<>>

\* C18: the assembled proof holds one shard proof per record committed in
\* phase 1, and its k-th shard proof is for the record whose commitment was
\* the k-th one observed by operator phase 2.
C18_ProofsInTranscriptOrder ==
    proof.built =>
        /\ Len(proof.shard_proofs) = Len(Flatten(commitments_vec))
        /\ Len(proof.shard_proofs) = Len(challenger_state.observed)
        /\ \A k \in DOMAIN proof.shard_proofs :
              commit(proof.shard_proofs[k].record) =
                  challenger_state.observed[k].commitment

C18_Witness ==
    /\ proof.built
    /\ Len(proof.shard_proofs) >= 3
    /\ Cardinality({i \in DOMAIN records_vec : records_vec[i] # <<>>}) >= 2
    /\ \E i \in DOMAIN records_vec : DeferredRecordsOf(i) # {}

\* what operator phase 2 observes of a record
Entry(record) ==
    [commitment |-> commit(record), public_values |-> record.public_values]

\* how often e occurs in the sequence s
Count(s, e) == Cardinality({k \in DOMAIN s : s[k] = e})

\* the transcript entries of the records proved so far
ProvedEntries ==
    Flatten([i \in DOMAIN shard_proofs_vec |->
                [j \in DOMAIN shard_proofs_vec[i] |->
                    Entry(shard_proofs_vec[i][j].record)]])

\* C19: every record proved in phase 2 is a record of phase 1 whose
\* commitment and public values are in the transcript it is proved against,
\* and once phase 2 is over the records proved are, as a multiset, the
\* records observed by operator phase 2.
C19_ProvedRecordsAreObservedRecords ==
    /\ \A i \in DOMAIN shard_proofs_vec :
          \A j \in DOMAIN shard_proofs_vec[i] :
              /\ shard_proofs_vec[i][j].record \in Range(AllRecords)
              /\ Entry(shard_proofs_vec[i][j].record)
                     \in Range(shard_proofs_vec[i][j].challenger)
    /\ pc \in {"operator_phase3a", "done"} =>
          \A e \in Range(ProvedEntries) \cup Range(challenger_state.observed) :
              Count(ProvedEntries, e) = Count(challenger_state.observed, e)

C19_Witness ==
    /\ pc = "operator_phase3a"
    /\ Len(ProvedEntries) >= 3
    /\ Len(records_vec) >= 2
    /\ records_vec[1] # records_vec[2]

\* C20: once an execution step of the checkpointer has returned an error,
\* the run is aborted: none of the checkpoints saved before is returned, no
\* worker_phase1 call has been or is made, nothing is built, and the engine
\* takes no further step (the failed step is not retried).
C20_ExecutionErrorAborts ==
    /\ [](runtime.failed =>
             /\ pc = "execution_error"
             /\ checkpoints = <<>>
             /\ phase1_locals = <<>>
             /\ records_vec = <<>>
             /\ commitments_vec = <<>>
             /\ ~runtime.done
             /\ ~challenger_state.built
             /\ ~proof.built)
    /\ [][runtime.failed => runtime' = runtime /\ pc' = pc]_vars

C20_Witness ==
    /\ runtime.failed
    /\ runtime.shards >= 2
    /\ runtime.events >= 1

\* C21: a run in which the final verification of the assembled proof fails
\* ends in the fatal state of the failed verification, and a run that ends
\* as verified is one whose verification succeeded.
C21_VerificationFailureIsFatal ==
    /\ (verification.checked /\ ~verification.verified) =>
           pc = "failed to verify proof"
    /\ pc \in {"verified", "core_verified"} =>
           verification.checked /\ verification.verified

C21_Witness ==
    /\ proof.built
    /\ verification.checked
    /\ verification.proof_type = "COMPRESS"
    /\ ~verification.verified
    /\ pc = "failed to verify proof"

MulDivOpcodes ==
    {"MUL", "MULH", "MULHU", "MULHSU", "DIV", "DIVU", "REM", "REMU"}

\* C25: populate on default selectors with a multiply or divide/remainder
\* instruction returns, with add_op, sub_op, bitwise_op, shift_op and lt_op
\* all zero.
C25_MulDivSetNoAluFlag ==
    (populate_status \in {"populated", "panic"}
     /\ instruction.opcode \in MulDivOpcodes) =>
        /\ populate_status = "populated"
        /\ selectors.add_op = 0
        /\ selectors.sub_op = 0
        /\ selectors.bitwise_op = 0
        /\ selectors.shift_op = 0
        /\ selectors.lt_op = 0

RecognizedOpcodes ==
    AluOpcodes \cup LoadOpcodes \cup StoreOpcodes \cup BranchOpcodes
    \cup {"JAL", "JALR", "UNIMP"}

\* C27: populate never returns for an opcode of no recognised category; it
\* panics.
C27_UnrecognizedOpcodePanics ==
    (populate_status \in {"populated", "panic"}
     /\ instruction.opcode \notin RecognizedOpcodes) =>
        populate_status = "panic"

\* C28: populate with an instruction on selectors an earlier call populated
\* leaves the selectors populate leaves on default selectors.
C28_PopulateIgnoresEarlierFlags ==
    populate_status = "repopulated" =>
        selectors = populate(DefaultSelectors, instruction).selectors

\* C29: every saved checkpoint is at its start whenever worker_phase1 is
\* called or has returned, and materialising a checkpoint again after
\* worker_phase1 has returned reads the state again and yields the records
\* of the first materialisation.
C29_CheckpointRewound ==
    /\ \A i \in DOMAIN checkpoints : checkpoints[i].pos = 0
    /\ \A i \in DOMAIN phase1_locals :
          LET again == worker_phase1(phase1_locals[i].idx, checkpoints[i],
                                     phase1_locals[i].is_last_checkpoint,
                                     public_values)
          IN /\ again.read_ok
             /\ [j \in DOMAIN again.commitments |-> again.commitments[j][2]]
                    = records_vec[i]

C29_Witness ==
    /\ Len(phase1_locals) >= 2
    /\ \A i \in DOMAIN phase1_locals :
          /\ checkpoints[i].records # <<>>
          /\ checkpoints[i].pos = 0

\* C30: bootstrap for a Plonk proof returns the error, with no program
\* built, exactly on the machines of less than 128 GB of memory.
C30_PlonkNeeds128GB ==
    (bootstrap_state.stage = "returned" /\ bootstrap_state.kind = "Plonk") =>
        ((bootstrap_state.total_memory < 128 * 1000) <=>
            (bootstrap_state.result # "Ok" /\ ~bootstrap_state.program_built))

\* the records saved in the checkpoints, in list order
SavedRecords ==
    Flatten([i \in DOMAIN checkpoints |-> checkpoints[i].records])

\* generate_checkpoints has returned its checkpoints to multi_machine_prove
CheckpointsReturned ==
    pc \notin {"operator_phase1", "execution_error", "panic"}

\* C31: while generate_checkpoints runs and after it has returned, there is
\* one saved checkpoint per execution step, in step order (the records of
\* the checkpoints are the shards of the execution in order); the returned
\* list is not empty and is returned with done reported, the returned public
\* values are those of the last record of the execution, and no step is
\* taken once done is reported.
C31_OneCheckpointPerStep ==
    /\ [](pc # "execution_error" =>
             /\ Len(checkpoints) = runtime.steps
             /\ CpuTraces(SavedRecords) = [k \in 1..runtime.shards |-> k])
    /\ [](CheckpointsReturned =>
             /\ runtime.done
             /\ checkpoints # <<>>
             /\ SavedRecords # <<>>
             /\ public_values
                   = SavedRecords[Len(SavedRecords)].public_values)
    /\ [][runtime.done => runtime' = runtime /\ checkpoints' = checkpoints]_vars

C31_Witness ==
    /\ CheckpointsReturned
    /\ runtime.steps >= 3
    /\ Len(SavedRecords) >= 3
    /\ checkpoints[Len(checkpoints)].records = <<>>

\* C32: for a checkpoint that is not the last and returns deferred records,
\* the execution_shard of the first ordinary record of the next checkpoint
\* differs from the execution_shard of each of those deferred records.
C32_FreshExecutionShardAfterDeferred ==
    \A i \in DOMAIN records_vec :
        (/\ i + 1 \in DOMAIN records_vec
         /\ DeferredRecordsOf(i) # {}
         /\ CpuRecordsOf(i + 1) # {}) =>
            \A j \in DeferredRecordsOf(i) :
                records_vec[i][j].public_values.execution_shard
                    # records_vec[i + 1][1].public_values.execution_shard

\* the records a call of worker_phase1 returned
ReturnedRecords(out) ==
    [j \in DOMAIN out.commitments |-> out.commitments[j][2]]

\* C33: the public values of the j-th ordinary record, as worker_phase1
\* writes them and as it returns them, are the seed state (the reset of the
\* public values handed in, with the seeded shard) except for shard, which
\* is the seed's plus j, and for execution_shard, start_pc and next_pc,
\* which are the ones re-execution left in the record.
C33_OrdinaryRecordPublicValues ==
    worker_call.stage = "returned" =>
        LET out == worker_call.out
            traced == worker_call.traced
            seed == [reset(worker_call.public_values) EXCEPT
                        !.shard = out.state_in.shard]
            expected(j) ==
                [seed EXCEPT
                    !.shard = seed.shard + j,
                    !.execution_shard =
                        traced[j].public_values.execution_shard,
                    !.start_pc = traced[j].public_values.start_pc,
                    !.next_pc = traced[j].public_values.next_pc]
        IN /\ Len(out.written) = Len(traced)
           /\ \A j \in DOMAIN traced :
                 /\ out.written[j].public_values = expected(j)
                 /\ ReturnedRecords(out)[j].public_values = expected(j)

C33_Witness ==
    /\ worker_call.stage = "returned"
    /\ Len(worker_call.traced) >= 2
    /\ worker_call.traced[2].public_values.exit_code
           # worker_call.public_values.exit_code
    /\ worker_call.traced[2].public_values.last_init_addr_bits # 0
    /\ worker_call.out.written[2].public_values.shard
           # worker_call.traced[2].public_values.shard

\* C34: the m-th deferred record returned for a checkpoint carries start_pc
\* and next_pc both equal to the next_pc of the checkpoint's last ordinary
\* record, and the four address-bit fields the split gave that very record.
C34_DeferredRecordPublicValues ==
    \A i \in DOMAIN phase1_locals :
        LET l == phase1_locals[i]
            n == Len(l.written)
        IN /\ Len(records_vec[i]) = n + Len(l.split_shards)
           /\ l.split_shards # <<>> => n >= 1
           /\ \A m \in DOMAIN l.split_shards :
                 LET pv == records_vec[i][n + m].public_values
                     own == l.split_shards[m].public_values
                 IN /\ pv.start_pc = pv.next_pc
                    /\ pv.next_pc = records_vec[i][n].public_values.next_pc
                    /\ pv.previous_init_addr_bits
                           = own.previous_init_addr_bits
                    /\ pv.last_init_addr_bits = own.last_init_addr_bits
                    /\ pv.previous_finalize_addr_bits
                           = own.previous_finalize_addr_bits
                    /\ pv.last_finalize_addr_bits
                           = own.last_finalize_addr_bits

C34_Witness ==
    \E i \in DOMAIN phase1_locals :
        /\ Len(phase1_locals[i].split_shards) >= 2
        /\ phase1_locals[i].split_shards[1].public_values.last_init_addr_bits
               # phase1_locals[i].split_shards[2].public_values
                     .last_init_addr_bits

\* the number of selectors of the set that are set
SetAmong(self, names) == Cardinality({n \in names : self[n] = 1})

\* C35: whenever populate returns for a load, is_load is set, exactly one of
\* is_byte, is_half, is_word is set and is_signed is set exactly for LB and
\* LH; whenever it returns for a store, is_store is set, exactly one width
\* is set and is_signed is not; is_load and is_store are never both set.
C35_MemorySelectors ==
    populate_status \in {"populated", "repopulated"} =>
        /\ instruction.opcode \in LoadOpcodes =>
              /\ selectors.is_load = 1
              /\ SetAmong(selectors, {"is_byte", "is_half", "is_word"}) = 1
              /\ selectors.is_signed = 1 <=> instruction.opcode \in {"LB", "LH"}
        /\ instruction.opcode \in StoreOpcodes =>
              /\ selectors.is_store = 1
              /\ SetAmong(selectors, {"is_byte", "is_half", "is_word"}) = 1
              /\ selectors.is_signed = 0
        /\ ~(selectors.is_load = 1 /\ selectors.is_store = 1)

\* the category selectors
CategorySelectors ==
    {"add_op", "sub_op", "bitwise_op", "shift_op", "lt_op", "is_load",
     "is_store", "branch_op", "jal", "jalr", "noop"}

\* C36: after populate on default selectors at most one category selector
\* is set, and mul_op, div_op and auipc are not set.
C36_AtMostOneCategory ==
    populate_status = "populated" =>
        /\ SetAmong(selectors, CategorySelectors) <= 1
        /\ selectors.mul_op = 0
        /\ selectors.div_op = 0
        /\ selectors.auipc = 0

C36_Witness ==
    /\ populate_status = "populated"
    /\ instruction.opcode = "MUL"
    /\ SetAmong(selectors, CategorySelectors) = 0

\* every record of phase 1 has a proof of phase 2
AllRecordsProved ==
    /\ Len(shard_proofs_vec) = Len(records_vec)
    /\ \A i \in DOMAIN records_vec :
          Len(shard_proofs_vec[i]) = Len(records_vec[i])

\* C37: once the execution has halted with its checkpoints returned, every
\* checkpoint is eventually materialised, the challenger state is eventually
\* built, every record is eventually proved and the proof is eventually
\* assembled and returned.
C37_PipelineTerminates ==
    CheckpointsReturned ~>
        (/\ Len(records_vec) = Len(checkpoints)
         /\ challenger_state.built
         /\ AllRecordsProved
         /\ proof.built
         /\ pc \in {"done", "verified", "core_verified",
                    "failed to verify proof"})

C37_Witness ==
    /\ pc = "done"
    /\ Len(checkpoints) >= 3
    /\ AllRecordsProved
    /\ Len(AllRecords) >= 4

\* the input of prepare_header fails one of the checks the claim names
PrepareInputInvalid ==
    LET state_input == block_builder.input.state_input
        parent_header == state_input.parent_header
    IN  \/ state_input.gas_limit - parent_header.gas_limit
               >= parent_header.gas_limit \div 1024
        \/ parent_header.gas_limit - state_input.gas_limit
               >= parent_header.gas_limit \div 1024
        \/ state_input.gas_limit < 5000
        \/ state_input.timestamp <= parent_header.timestamp
        \/ state_input.extra_data > 32
        \/ parent_header.number + 1 > MaxBlockNumber

\* prepare_header returned an error and the builder has no header and no
\* spec id
PrepareFailed ==
    /\ block_builder.result = "Err"
    /\ block_builder.header = None
    /\ block_builder.spec_id = None

\* prepare_header set a header that follows the parent header
PrepareSucceeded ==
    /\ block_builder.result = "Ok"
    /\ block_builder.header # None
    /\ unwrap(block_builder.header).number
           = block_builder.input.state_input.parent_header.number + 1
    /\ unwrap(block_builder.header).parent_hash
           = hash(block_builder.input.state_input.parent_header)

\* C38 as claimed: prepare_header fails exactly on the inputs the claim
\* names, and on every other input sets a header with the parent's number
\* plus one and the parent's hash.
C38_PrepareHeaderOutcome ==
    block_builder.stage = "returned" =>
        IF PrepareInputInvalid THEN PrepareFailed ELSE PrepareSucceeded

\* the chain specification has a fork for the new block
ForkSupported ==
    LET state_input == block_builder.input.state_input
    IN  active_fork(block_builder.chain_spec,
                    state_input.parent_header.number + 1,
                    state_input.timestamp).ok

\* C38, amended: prepare_header fails exactly on the inputs the claim
\* names; on every other input it sets a header with the parent's number
\* plus one and the parent's hash if the chain specification has a fork for
\* the new block, and panics with no header and no spec id set if it has
\* none.
C38_PrepareHeaderOutcomeOrPanic ==
    block_builder.stage = "returned" =>
        IF PrepareInputInvalid THEN PrepareFailed
        ELSE IF ForkSupported THEN PrepareSucceeded
        ELSE /\ block_builder.result = "panic"
             /\ block_builder.header = None
             /\ block_builder.spec_id = None

C38_Witness ==
    /\ block_builder.stage = "returned"
    /\ block_builder.result = "Ok"
    /\ block_builder.chain_spec = OP_MAINNET_CHAIN_SPEC
    /\ block_builder.spec_id = Some("CANYON")
    /\ unwrap(block_builder.header).number = MaxBlockNumber
    /\ unwrap(block_builder.header).gas_limit
           # block_builder.input.state_input.parent_header.gas_limit

\* the sum of the first n entries of a sequence of gas amounts
RECURSIVE GasSum(_, _)
GasSum(amounts, n) ==
    IF n = 0 THEN 0 ELSE GasSum(amounts, n - 1) + amounts[n]

\* the next transaction asks for more gas than the block has left
NextTxExceedsBlock ==
    /\ execution.stage = "loop"
    /\ execution.tx_no < Len(execution.transactions)
    /\ execution.transactions[execution.tx_no + 1].signed
    /\ execution.transactions[execution.tx_no + 1].gas_limit
           > execution.gas_limit - execution.cumulative_gas_used

====
